---- MODULE Spec2Model ----
(***************************************************************************)
(* A model of the GCAT ingest core (data/raw/ingest_core.py) and of its    *)
(* entry point (data/raw/ingest_vehicle.py).                               *)
(*                                                                         *)
(* Text is modelled at the level of characters: a Python str is a sequence *)
(* of one-character strings, so that trimming, comment detection, CSV      *)
(* field splitting, float() parsing and the regular-expression search are  *)
(* computed character by character as the code computes them.  Python      *)
(* positions are 0-based, the positions of this module are 1-based.        *)
(***************************************************************************)
EXTENDS Integers, Sequences, FiniteSets, TLC

TAB == "\t"
NL == "\n"
CR == "\r"
FF == "\f"
\* The other characters below U+0100 that Python counts as white space:
\* U+000B, U+001C, U+001D, U+001E, U+001F, U+0085 and U+00A0.
VT == ""
FS == ""
GS == ""
RS == ""
US == ""
NEL == ""
NBSP == " "
QUOTE == "\""
DASH == <<"-">>
EMPTY == <<>>

\* The character classes are those of Unicode 15.1, the tables of Python
\* 3.13, the oldest version the source declares (requires-python, line 3).
\* A str is a sequence of characters.  A character up to U+00FF is the
\* one-character string; a character above U+00FF is the string "U+" followed
\* by its code point in hexadecimal (upper case, four digits at least), so
\* that "U+2003" is the one character EM SPACE.
HexDigits ==
    <<"0", "1", "2", "3", "4", "5", "6", "7", "8", "9", "A", "B", "C", "D",
      "E", "F">>

RECURSIVE Hex(_)
Hex(n) ==
    IF n < 16 THEN HexDigits[n + 1]
    ELSE Hex(n \div 16) \o HexDigits[(n % 16) + 1]

Chr(n) == "U+" \o (IF n < 4096 THEN "0" ELSE "") \o Hex(n)

\* The characters of the code points of a sequence of ranges <<first, last>>.
CharsOf(ranges) ==
    { Chr(n) : n \in UNION { ranges[i][1]..ranges[i][2] : i \in 1..Len(ranges) } }

\* The white space above U+00FF: U+1680, U+2000..U+200A, U+2028, U+2029,
\* U+202F, U+205F and U+3000.
WideWhitespaceRanges ==
    << <<5760, 5760>>, <<8192, 8202>>, <<8232, 8233>>, <<8239, 8239>>,
       <<8287, 8287>>, <<12288, 12288>> >>

\* The characters str.strip() removes and the regular expression's \s matches
\* (str.isspace).
Whitespace ==
    {" ", TAB, NL, VT, FF, CR, FS, GS, RS, US, NEL, NBSP}
    \cup CharsOf(WideWhitespaceRanges)

\* The line boundaries above U+00FF: U+2028 and U+2029.
WideLineBreakRanges ==
    << <<8232, 8233>> >>

\* The line boundaries of str.splitlines().
LineBreaks ==
    {NL, VT, FF, CR, FS, GS, RS, NEL} \cup CharsOf(WideLineBreakRanges)

AsciiDigits == {"0", "1", "2", "3", "4", "5", "6", "7", "8", "9"}

\* The decimal digits above U+00FF (str.isdecimal), by runs of ten: the
\* digits of value 0 to 9 of one script.
WideDigitRanges ==
    << <<1632, 1641>>, <<1776, 1785>>, <<1984, 1993>>, <<2406, 2415>>,
       <<2534, 2543>>, <<2662, 2671>>, <<2790, 2799>>, <<2918, 2927>>,
       <<3046, 3055>>, <<3174, 3183>>, <<3302, 3311>>, <<3430, 3439>>,
       <<3558, 3567>>, <<3664, 3673>>, <<3792, 3801>>, <<3872, 3881>>,
       <<4160, 4169>>, <<4240, 4249>>, <<6112, 6121>>, <<6160, 6169>>,
       <<6470, 6479>>, <<6608, 6617>>, <<6784, 6793>>, <<6800, 6809>>,
       <<6992, 7001>>, <<7088, 7097>>, <<7232, 7241>>, <<7248, 7257>>,
       <<42528, 42537>>, <<43216, 43225>>, <<43264, 43273>>, <<43472, 43481>>,
       <<43504, 43513>>, <<43600, 43609>>, <<44016, 44025>>, <<65296, 65305>>,
       <<66720, 66729>>, <<68912, 68921>>, <<69734, 69743>>, <<69872, 69881>>,
       <<69942, 69951>>, <<70096, 70105>>, <<70384, 70393>>, <<70736, 70745>>,
       <<70864, 70873>>, <<71248, 71257>>, <<71360, 71369>>, <<71472, 71481>>,
       <<71904, 71913>>, <<72016, 72025>>, <<72784, 72793>>, <<73040, 73049>>,
       <<73120, 73129>>, <<73552, 73561>>, <<92768, 92777>>, <<92864, 92873>>,
       <<93008, 93017>>, <<120782, 120791>>, <<120792, 120801>>, <<120802, 120811>>,
       <<120812, 120821>>, <<120822, 120831>>, <<123200, 123209>>, <<123632, 123641>>,
       <<124144, 124153>>, <<125264, 125273>>, <<130032, 130041>> >>

\* The regular expression's \d and the digits of int() and float(): the
\* decimal digits of every script.
Digits == AsciiDigits \cup CharsOf(WideDigitRanges)

-----------------------------------------------------------------------------
(* str methods *)

RECURSIVE LStripSet(_, _)
LStripSet(s, cs) ==
    IF s # <<>> /\ Head(s) \in cs THEN LStripSet(Tail(s), cs) ELSE s

RECURSIVE RStripSet(_, _)
RStripSet(s, cs) ==
    IF s # <<>> /\ s[Len(s)] \in cs
    THEN RStripSet(SubSeq(s, 1, Len(s) - 1), cs)
    ELSE s

\* str.strip()
Strip(s) == RStripSet(LStripSet(s, Whitespace), Whitespace)

\* str.lstrip("#")
LStripHash(s) == LStripSet(s, {"#"})

\* str.startswith("#")
StartsWithHash(s) == s # <<>> /\ s[1] = "#"

\* str.splitlines(): "\r\n" is one boundary, a final boundary opens no line.
RECURSIVE SplitLinesFrom(_, _, _, _)
SplitLinesFrom(text, i, cur, acc) ==
    IF i > Len(text)
    THEN (IF cur # <<>> THEN Append(acc, cur) ELSE acc)
    ELSE IF text[i] = CR /\ i < Len(text) /\ text[i + 1] = NL
    THEN SplitLinesFrom(text, i + 2, <<>>, Append(acc, cur))
    ELSE IF text[i] \in LineBreaks
    THEN SplitLinesFrom(text, i + 1, <<>>, Append(acc, cur))
    ELSE SplitLinesFrom(text, i + 1, Append(cur, text[i]), acc)

SplitLines(text) == SplitLinesFrom(text, 1, <<>>, <<>>)

RECURSIVE Join(_, _)
Join(parts, sep) ==
    IF parts = <<>> THEN <<>>
    ELSE IF Len(parts) = 1 THEN parts[1]
    ELSE parts[1] \o sep \o Join(Tail(parts), sep)

-----------------------------------------------------------------------------
(* csv.reader(io.StringIO(line), delimiter="\t"): the states of the reader  *)
(* of the csv module under the default dialect (quotechar '"', doublequote, *)
(* no escapechar, not strict), fed one line that holds no line break.       *)

RECURSIVE CsvReaderFrom(_, _, _, _, _)
CsvReaderFrom(line, i, st, fld, fields) ==
    IF i > Len(line)
    THEN \* end of the line, then the end of the input
         (IF st = "START_RECORD" THEN fields ELSE Append(fields, fld))
    ELSE
      LET c == line[i] IN
      CASE st \in {"START_RECORD", "START_FIELD"} ->
             (IF c = QUOTE
              THEN CsvReaderFrom(line, i + 1, "IN_QUOTED_FIELD", <<>>, fields)
              ELSE IF c = TAB
              THEN CsvReaderFrom(line, i + 1, "START_FIELD", <<>>,
                                 Append(fields, <<>>))
              ELSE CsvReaderFrom(line, i + 1, "IN_FIELD", <<c>>, fields))
        [] st = "IN_FIELD" ->
             (IF c = TAB
              THEN CsvReaderFrom(line, i + 1, "START_FIELD", <<>>,
                                 Append(fields, fld))
              ELSE CsvReaderFrom(line, i + 1, "IN_FIELD", Append(fld, c),
                                 fields))
        [] st = "IN_QUOTED_FIELD" ->
             (IF c = QUOTE
              THEN CsvReaderFrom(line, i + 1, "QUOTE_IN_QUOTED_FIELD", fld,
                                 fields)
              ELSE CsvReaderFrom(line, i + 1, "IN_QUOTED_FIELD",
                                 Append(fld, c), fields))
        [] OTHER -> \* QUOTE_IN_QUOTED_FIELD
             (IF c = QUOTE
              THEN CsvReaderFrom(line, i + 1, "IN_QUOTED_FIELD",
                                 Append(fld, c), fields)
              ELSE IF c = TAB
              THEN CsvReaderFrom(line, i + 1, "START_FIELD", <<>>,
                                 Append(fields, fld))
              ELSE CsvReaderFrom(line, i + 1, "IN_FIELD", Append(fld, c),
                                 fields))

\* next(csv.reader(...)): the fields of the line; an empty line yields no
\* record at all, and next() raises StopIteration (stop is TRUE).
CsvReaderNext(line) ==
    IF line = <<>> THEN [stop |-> TRUE, fields |-> <<>>]
    ELSE [stop |-> FALSE,
          fields |-> CsvReaderFrom(line, 1, "START_RECORD", <<>>, <<>>)]

\* csv.writer(out, delimiter="\t"): QUOTE_MINIMAL quotes a field that holds
\* the delimiter, the quote character or a character of the line terminator,
\* doubling its quote characters; a row that is one empty field is written
\* as "" ; every row ends with "\r\n".
NeedsQuote(fld) == \E i \in 1..Len(fld) : fld[i] \in {TAB, QUOTE, CR, NL}

RECURSIVE DoubleQuotes(_)
DoubleQuotes(fld) ==
    IF fld = <<>> THEN <<>>
    ELSE (IF Head(fld) = QUOTE THEN <<QUOTE, QUOTE>> ELSE <<Head(fld)>>)
         \o DoubleQuotes(Tail(fld))

CsvWriteField(fld) ==
    IF NeedsQuote(fld) THEN <<QUOTE>> \o DoubleQuotes(fld) \o <<QUOTE>> ELSE fld

CsvWriteRow(row) ==
    (IF row = <<EMPTY>> THEN <<QUOTE, QUOTE>>
     ELSE Join([c \in 1..Len(row) |-> CsvWriteField(row[c])], <<TAB>>))
    \o <<CR, NL>>

RECURSIVE CsvWriteRows(_)
CsvWriteRows(rows) ==
    IF rows = <<>> THEN <<>>
    ELSE CsvWriteRow(Head(rows)) \o CsvWriteRows(Tail(rows))

-----------------------------------------------------------------------------
(* float(val): whether the conversion succeeds (no ValueError).             *)

UpperSeq ==
    <<"A", "B", "C", "D", "E", "F", "G", "H", "I", "J", "K", "L", "M", "N",
      "O", "P", "Q", "R", "S", "T", "U", "V", "W", "X", "Y", "Z">>
LowerSeq ==
    <<"a", "b", "c", "d", "e", "f", "g", "h", "i", "j", "k", "l", "m", "n",
      "o", "p", "q", "r", "s", "t", "u", "v", "w", "x", "y", "z">>

\* str.lower() of one character, as far as the words compared after it go:
\* they are ASCII, and no other character lowers to a letter of theirs.
LowerChar(c) ==
    IF \E i \in 1..Len(UpperSeq) : UpperSeq[i] = c
    THEN LowerSeq[CHOOSE i \in 1..Len(UpperSeq) : UpperSeq[i] = c]
    ELSE c

Lower(s) == [i \in 1..Len(s) |-> LowerChar(s[i])]

\* digit (["_"] digit)*
IsDigitPart(s) ==
    /\ s # <<>>
    /\ s[1] \in Digits
    /\ s[Len(s)] \in Digits
    /\ \A i \in 1..Len(s) : s[i] \in Digits \cup {"_"}
    /\ \A i \in 1..(Len(s) - 1) : ~(s[i] = "_" /\ s[i + 1] = "_")

\* digitpart | digitpart "." [digitpart] | "." digitpart
IsMantissa(s) ==
    \/ IsDigitPart(s)
    \/ \E k \in 1..Len(s) :
         /\ s[k] = "."
         /\ LET a == SubSeq(s, 1, k - 1)
                b == SubSeq(s, k + 1, Len(s))
            IN /\ a = <<>> \/ IsDigitPart(a)
               /\ b = <<>> \/ IsDigitPart(b)
               /\ ~(a = <<>> /\ b = <<>>)

IsExponent(s) ==
    /\ s # <<>>
    /\ IsDigitPart(IF s[1] \in {"+", "-"} THEN Tail(s) ELSE s)

IsFloatNumber(s) ==
    \/ IsMantissa(s)
    \/ \E k \in 1..Len(s) :
         /\ s[k] \in {"e", "E"}
         /\ IsMantissa(SubSeq(s, 1, k - 1))
         /\ IsExponent(SubSeq(s, k + 1, Len(s)))

FloatWords == {<<"i", "n", "f">>, <<"n", "a", "n">>,
               <<"i", "n", "f", "i", "n", "i", "t", "y">>}

\* The white space float() ignores around the number: U+001C..U+001F are
\* white space for str.strip() and not for float().
FloatWhitespace == Whitespace \ {FS, GS, RS, US}

IsFloat(val) ==
    LET s == RStripSet(LStripSet(val, FloatWhitespace), FloatWhitespace)
        u == IF s # <<>> /\ s[1] \in {"+", "-"} THEN Tail(s) ELSE s
    IN IsFloatNumber(u) \/ Lower(u) \in FloatWords

-----------------------------------------------------------------------------
(* clean_tsv_content *)

\* lines[0].lstrip("#").strip()
HeaderLine(lines) == Strip(LStripHash(lines[1]))

\* Faulty variant: the comment test on the line as it is, not on its stripped form.
IsCommentLine_Unstripped(line) == StartsWithHash(line)

\* A later line is a comment when its stripped form starts with "#".
IsCommentLine(line) == StartsWithHash(Strip(line))

\* The loop over lines[1:]: the stripped forms of the non-comment lines.
RECURSIVE DataLines(_)
DataLines(rest) ==
    IF rest = <<>> THEN <<>>
    ELSE IF ~IsCommentLine(Head(rest))
    THEN <<Strip(Head(rest))>> \o DataLines(Tail(rest))
    ELSE DataLines(Tail(rest))

\* [field.strip() for field in next(reader)]
StripFields(fields) == [c \in 1..Len(fields) |-> Strip(fields[c])]

\* The loop over data_lines: empty lines are skipped, the others parsed.
RECURSIVE ParseDataLines(_)
ParseDataLines(data_lines) ==
    IF data_lines = <<>> THEN <<>>
    ELSE IF Head(data_lines) # <<>>
    THEN <<StripFields(CsvReaderNext(Head(data_lines)).fields)>>
         \o ParseDataLines(Tail(data_lines))
    ELSE ParseDataLines(Tail(data_lines))

\* The values of one column that are neither "-" nor empty; a row too short
\* to have the column contributes nothing.
RECURSIVE NonDashValues(_, _)
NonDashValues(data_rows, col_idx) ==
    IF data_rows = <<>> THEN <<>>
    ELSE LET row == Head(data_rows) IN
         (IF col_idx <= Len(row) /\ row[col_idx] # DASH /\ row[col_idx] # EMPTY
          THEN <<row[col_idx]>> ELSE <<>>)
         \o NonDashValues(Tail(data_rows), col_idx)

\* The try block: every collected value converts with float().
AllFloat(values) == \A i \in 1..Len(values) : IsFloat(values[i])

\* Faulty variant: a column with no value to convert counts as numeric.
IsNumericColumn_Vacuous(data_rows, col_idx) ==
    AllFloat(NonDashValues(data_rows, col_idx))

IsNumericColumn(data_rows, col_idx) ==
    LET non_dash_values == NonDashValues(data_rows, col_idx)
    IN non_dash_values # <<>> /\ AllFloat(non_dash_values)

\* numeric_columns: the positions of the header that are numeric.
NumericColumns(rows) ==
    {col_idx \in 1..Len(rows[1]) : IsNumericColumn(Tail(rows), col_idx)}

\* Faulty variant: the dash is replaced in every column.
ReplaceDashInRow_AllColumns(row, numeric) ==
    [c \in 1..Len(row) |-> IF row[c] = DASH THEN EMPTY ELSE row[c]]

ReplaceDashInRow(row, numeric) ==
    [c \in 1..Len(row) |->
        IF c \in numeric /\ row[c] = DASH THEN EMPTY ELSE row[c]]

\* The replacement loop: the header row is left alone.
ReplaceDash(rows, numeric) ==
    [r \in 1..Len(rows) |->
        IF r = 1 THEN rows[r] ELSE ReplaceDashInRow(rows[r], numeric)]

\* The whole function on the decoded text.  status is "ok" when it returns
\* and "StopIteration" when next(header_reader) raises on an empty header
\* line; parsed_rows is all_rows as parsed, before the replacement.
CleanFailed ==
    [status |-> "StopIteration", parsed_rows |-> <<>>, numeric_columns |-> {},
     all_rows |-> <<>>, bytes |-> <<>>]

CleanTsvContent(text) ==
    LET lines == SplitLines(text) IN
    IF lines = <<>>
    THEN [status |-> "ok", parsed_rows |-> <<>>, numeric_columns |-> {},
          all_rows |-> <<>>, bytes |-> <<>>]
    ELSE
      LET header_line == HeaderLine(lines)
          data_lines == DataLines(Tail(lines))
      IN IF CsvReaderNext(header_line).stop THEN CleanFailed
         ELSE
           LET headers == StripFields(CsvReaderNext(header_line).fields)
               rows == <<headers>> \o ParseDataLines(data_lines)
           IN IF Len(rows) <= 1
              THEN [status |-> "ok", parsed_rows |-> rows,
                    numeric_columns |-> {}, all_rows |-> rows,
                    bytes |-> CsvWriteRows(rows)]
              ELSE
                LET numeric == NumericColumns(rows)
                    replaced == ReplaceDash(rows, numeric)
                IN [status |-> "ok", parsed_rows |-> rows,
                    numeric_columns |-> numeric, all_rows |-> replaced,
                    bytes |-> CsvWriteRows(replaced)]

-----------------------------------------------------------------------------
(* pyarrow is library code: load_arrow_table and add_data_update_column   *)
(* are calls into it, and the definitions of this section and of the next *)
(* stand for the library as its documentation describes it.               *)
(*                                                                         *)
(* load_arrow_table: pyarrow.csv.read_csv with delimiter "\t".  The first   *)
(* non-empty line gives the column names, empty lines are ignored, quoted   *)
(* fields may hold the delimiter, doubled quotes are one quote, and a row   *)
(* whose field count differs from the header's is an error (ArrowInvalid),  *)
(* as is an input with no line at all.  Cells are kept as text; the empty   *)
(* text is the null.                                                        *)

\* The lines of read_csv: they end at "\r", "\n" or "\r\n" and at nothing
\* else.
RECURSIVE ArrowLinesFrom(_, _, _, _)
ArrowLinesFrom(text, i, cur, acc) ==
    IF i > Len(text)
    THEN (IF cur # <<>> THEN Append(acc, cur) ELSE acc)
    ELSE IF text[i] = CR /\ i < Len(text) /\ text[i + 1] = NL
    THEN ArrowLinesFrom(text, i + 2, <<>>, Append(acc, cur))
    ELSE IF text[i] \in {CR, NL}
    THEN ArrowLinesFrom(text, i + 1, <<>>, Append(acc, cur))
    ELSE ArrowLinesFrom(text, i + 1, Append(cur, text[i]), acc)

NonEmptyLines(text) ==
    SelectSeq(ArrowLinesFrom(text, 1, <<>>, <<>>), LAMBDA l : l # <<>>)

ArrowParseLine(line) == CsvReaderFrom(line, 1, "START_RECORD", <<>>, <<>>)

NoTable(err) == [status |-> err, names |-> <<>>, columns |-> <<>>]

\* Faulty variant: rows of any length are accepted, a column holding the values of
\* the rows that reach it.
LoadArrowTable_Ragged(bytes) ==
    LET lines == NonEmptyLines(bytes)
        rows == [r \in 1..Len(lines) |-> ArrowParseLine(lines[r])]
    IN IF rows = <<>> THEN NoTable("ArrowInvalid")
       ELSE [status |-> "ok",
             names |-> rows[1],
             columns |-> [c \in 1..Len(rows[1]) |->
                LET have == SelectSeq(Tail(rows), LAMBDA row : c <= Len(row))
                IN [r \in 1..Len(have) |-> have[r][c]]]]

LoadArrowTable(bytes) ==
    LET lines == NonEmptyLines(bytes)
        rows == [r \in 1..Len(lines) |-> ArrowParseLine(lines[r])]
    IN IF rows = <<>> THEN NoTable("ArrowInvalid")
       ELSE IF \E r \in 2..Len(rows) : Len(rows[r]) # Len(rows[1])
       THEN NoTable("ArrowInvalid")
       ELSE [status |-> "ok",
             names |-> rows[1],
             columns |-> [c \in 1..Len(rows[1]) |->
                            [r \in 1..(Len(rows) - 1) |-> rows[r + 1][c]]]]

\* table.num_rows
NumRows(t) == IF t.columns = <<>> THEN 0 ELSE Len(t.columns[1])

-----------------------------------------------------------------------------
(* add_data_update_column *)

DataUpdateDateName ==
    <<"d", "a", "t", "a", "_", "u", "p", "d", "a", "t", "e", "_",
      "d", "a", "t", "e">>

\* Faulty variant: one value too many.
TsArray_OffByOne(updated_at, n) == [i \in 1..(n + 1) |-> updated_at]

\* pa.array([updated_at] * n, type=pa.timestamp("us", tz="UTC"))
TsArray(updated_at, n) == [i \in 1..n |-> updated_at]

\* table.append_column("data_update_date", ts_array): a new table.
AddDataUpdateColumn(t, updated_at) ==
    [status |-> "ok",
     names |-> Append(t.names, DataUpdateDateName),
     columns |-> Append(t.columns, TsArray(updated_at, NumRows(t)))]

-----------------------------------------------------------------------------
(* fetch_data_update_date *)

Letters ==
    {UpperSeq[i] : i \in 1..Len(UpperSeq)} \cup
    {LowerSeq[i] : i \in 1..Len(LowerSeq)}

\* The letters above U+007F (str.isalpha).
Latin1Letters ==
    { "ª", "µ", "º", "À", "Á", "Â", "Ã", "Ä", "Å", "Æ", "Ç", "È",
      "É", "Ê", "Ë", "Ì", "Í", "Î", "Ï", "Ð", "Ñ", "Ò", "Ó", "Ô",
      "Õ", "Ö", "Ø", "Ù", "Ú", "Û", "Ü", "Ý", "Þ", "ß", "à", "á",
      "â", "ã", "ä", "å", "æ", "ç", "è", "é", "ê", "ë", "ì", "í",
      "î", "ï", "ð", "ñ", "ò", "ó", "ô", "õ", "ö", "ø", "ù", "ú",
      "û", "ü", "ý", "þ", "ÿ" }

\* The characters above U+007F that are numeric and no decimal digit
\* (str.isnumeric): superscripts and fractions.
Latin1Numerics ==
    { "²", "³", "¹", "¼", "½", "¾" }

\* The alphanumeric characters above U+00FF (str.isalnum): the letters, the
\* decimal digits and the other numeric characters of every script.
WideWordRanges ==
    << <<256, 705>>, <<710, 721>>, <<736, 740>>, <<748, 748>>,
       <<750, 750>>, <<880, 884>>, <<886, 887>>, <<890, 893>>,
       <<895, 895>>, <<902, 902>>, <<904, 906>>, <<908, 908>>,
       <<910, 929>>, <<931, 1013>>, <<1015, 1153>>, <<1162, 1327>>,
       <<1329, 1366>>, <<1369, 1369>>, <<1376, 1416>>, <<1488, 1514>>,
       <<1519, 1522>>, <<1568, 1610>>, <<1632, 1641>>, <<1646, 1647>>,
       <<1649, 1747>>, <<1749, 1749>>, <<1765, 1766>>, <<1774, 1788>>,
       <<1791, 1791>>, <<1808, 1808>>, <<1810, 1839>>, <<1869, 1957>>,
       <<1969, 1969>>, <<1984, 2026>>, <<2036, 2037>>, <<2042, 2042>>,
       <<2048, 2069>>, <<2074, 2074>>, <<2084, 2084>>, <<2088, 2088>>,
       <<2112, 2136>>, <<2144, 2154>>, <<2160, 2183>>, <<2185, 2190>>,
       <<2208, 2249>>, <<2308, 2361>>, <<2365, 2365>>, <<2384, 2384>>,
       <<2392, 2401>>, <<2406, 2415>>, <<2417, 2432>>, <<2437, 2444>>,
       <<2447, 2448>>, <<2451, 2472>>, <<2474, 2480>>, <<2482, 2482>>,
       <<2486, 2489>>, <<2493, 2493>>, <<2510, 2510>>, <<2524, 2525>>,
       <<2527, 2529>>, <<2534, 2545>>, <<2548, 2553>>, <<2556, 2556>>,
       <<2565, 2570>>, <<2575, 2576>>, <<2579, 2600>>, <<2602, 2608>>,
       <<2610, 2611>>, <<2613, 2614>>, <<2616, 2617>>, <<2649, 2652>>,
       <<2654, 2654>>, <<2662, 2671>>, <<2674, 2676>>, <<2693, 2701>>,
       <<2703, 2705>>, <<2707, 2728>>, <<2730, 2736>>, <<2738, 2739>>,
       <<2741, 2745>>, <<2749, 2749>>, <<2768, 2768>>, <<2784, 2785>>,
       <<2790, 2799>>, <<2809, 2809>>, <<2821, 2828>>, <<2831, 2832>>,
       <<2835, 2856>>, <<2858, 2864>>, <<2866, 2867>>, <<2869, 2873>>,
       <<2877, 2877>>, <<2908, 2909>>, <<2911, 2913>>, <<2918, 2927>>,
       <<2929, 2935>>, <<2947, 2947>>, <<2949, 2954>>, <<2958, 2960>>,
       <<2962, 2965>>, <<2969, 2970>>, <<2972, 2972>>, <<2974, 2975>>,
       <<2979, 2980>>, <<2984, 2986>>, <<2990, 3001>>, <<3024, 3024>>,
       <<3046, 3058>>, <<3077, 3084>>, <<3086, 3088>>, <<3090, 3112>>,
       <<3114, 3129>>, <<3133, 3133>>, <<3160, 3162>>, <<3165, 3165>>,
       <<3168, 3169>>, <<3174, 3183>>, <<3192, 3198>>, <<3200, 3200>>,
       <<3205, 3212>>, <<3214, 3216>>, <<3218, 3240>>, <<3242, 3251>>,
       <<3253, 3257>>, <<3261, 3261>>, <<3293, 3294>>, <<3296, 3297>>,
       <<3302, 3311>>, <<3313, 3314>>, <<3332, 3340>>, <<3342, 3344>>,
       <<3346, 3386>>, <<3389, 3389>>, <<3406, 3406>>, <<3412, 3414>>,
       <<3416, 3425>>, <<3430, 3448>>, <<3450, 3455>>, <<3461, 3478>>,
       <<3482, 3505>>, <<3507, 3515>>, <<3517, 3517>>, <<3520, 3526>>,
       <<3558, 3567>>, <<3585, 3632>>, <<3634, 3635>>, <<3648, 3654>>,
       <<3664, 3673>>, <<3713, 3714>>, <<3716, 3716>>, <<3718, 3722>>,
       <<3724, 3747>>, <<3749, 3749>>, <<3751, 3760>>, <<3762, 3763>>,
       <<3773, 3773>>, <<3776, 3780>>, <<3782, 3782>>, <<3792, 3801>>,
       <<3804, 3807>>, <<3840, 3840>>, <<3872, 3891>>, <<3904, 3911>>,
       <<3913, 3948>>, <<3976, 3980>>, <<4096, 4138>>, <<4159, 4169>>,
       <<4176, 4181>>, <<4186, 4189>>, <<4193, 4193>>, <<4197, 4198>>,
       <<4206, 4208>>, <<4213, 4225>>, <<4238, 4238>>, <<4240, 4249>>,
       <<4256, 4293>>, <<4295, 4295>>, <<4301, 4301>>, <<4304, 4346>>,
       <<4348, 4680>>, <<4682, 4685>>, <<4688, 4694>>, <<4696, 4696>>,
       <<4698, 4701>>, <<4704, 4744>>, <<4746, 4749>>, <<4752, 4784>>,
       <<4786, 4789>>, <<4792, 4798>>, <<4800, 4800>>, <<4802, 4805>>,
       <<4808, 4822>>, <<4824, 4880>>, <<4882, 4885>>, <<4888, 4954>>,
       <<4969, 4988>>, <<4992, 5007>>, <<5024, 5109>>, <<5112, 5117>>,
       <<5121, 5740>>, <<5743, 5759>>, <<5761, 5786>>, <<5792, 5866>>,
       <<5870, 5880>>, <<5888, 5905>>, <<5919, 5937>>, <<5952, 5969>>,
       <<5984, 5996>>, <<5998, 6000>>, <<6016, 6067>>, <<6103, 6103>>,
       <<6108, 6108>>, <<6112, 6121>>, <<6128, 6137>>, <<6160, 6169>>,
       <<6176, 6264>>, <<6272, 6276>>, <<6279, 6312>>, <<6314, 6314>>,
       <<6320, 6389>>, <<6400, 6430>>, <<6470, 6509>>, <<6512, 6516>>,
       <<6528, 6571>>, <<6576, 6601>>, <<6608, 6618>>, <<6656, 6678>>,
       <<6688, 6740>>, <<6784, 6793>>, <<6800, 6809>>, <<6823, 6823>>,
       <<6917, 6963>>, <<6981, 6988>>, <<6992, 7001>>, <<7043, 7072>>,
       <<7086, 7141>>, <<7168, 7203>>, <<7232, 7241>>, <<7245, 7293>>,
       <<7296, 7304>>, <<7312, 7354>>, <<7357, 7359>>, <<7401, 7404>>,
       <<7406, 7411>>, <<7413, 7414>>, <<7418, 7418>>, <<7424, 7615>>,
       <<7680, 7957>>, <<7960, 7965>>, <<7968, 8005>>, <<8008, 8013>>,
       <<8016, 8023>>, <<8025, 8025>>, <<8027, 8027>>, <<8029, 8029>>,
       <<8031, 8061>>, <<8064, 8116>>, <<8118, 8124>>, <<8126, 8126>>,
       <<8130, 8132>>, <<8134, 8140>>, <<8144, 8147>>, <<8150, 8155>>,
       <<8160, 8172>>, <<8178, 8180>>, <<8182, 8188>>, <<8304, 8305>>,
       <<8308, 8313>>, <<8319, 8329>>, <<8336, 8348>>, <<8450, 8450>>,
       <<8455, 8455>>, <<8458, 8467>>, <<8469, 8469>>, <<8473, 8477>>,
       <<8484, 8484>>, <<8486, 8486>>, <<8488, 8488>>, <<8490, 8493>>,
       <<8495, 8505>>, <<8508, 8511>>, <<8517, 8521>>, <<8526, 8526>>,
       <<8528, 8585>>, <<9312, 9371>>, <<9450, 9471>>, <<10102, 10131>>,
       <<11264, 11492>>, <<11499, 11502>>, <<11506, 11507>>, <<11517, 11517>>,
       <<11520, 11557>>, <<11559, 11559>>, <<11565, 11565>>, <<11568, 11623>>,
       <<11631, 11631>>, <<11648, 11670>>, <<11680, 11686>>, <<11688, 11694>>,
       <<11696, 11702>>, <<11704, 11710>>, <<11712, 11718>>, <<11720, 11726>>,
       <<11728, 11734>>, <<11736, 11742>>, <<11823, 11823>>, <<12293, 12295>>,
       <<12321, 12329>>, <<12337, 12341>>, <<12344, 12348>>, <<12353, 12438>>,
       <<12445, 12447>>, <<12449, 12538>>, <<12540, 12543>>, <<12549, 12591>>,
       <<12593, 12686>>, <<12690, 12693>>, <<12704, 12735>>, <<12784, 12799>>,
       <<12832, 12841>>, <<12872, 12879>>, <<12881, 12895>>, <<12928, 12937>>,
       <<12977, 12991>>, <<13312, 19903>>, <<19968, 42124>>, <<42192, 42237>>,
       <<42240, 42508>>, <<42512, 42539>>, <<42560, 42606>>, <<42623, 42653>>,
       <<42656, 42735>>, <<42775, 42783>>, <<42786, 42888>>, <<42891, 42954>>,
       <<42960, 42961>>, <<42963, 42963>>, <<42965, 42969>>, <<42994, 43009>>,
       <<43011, 43013>>, <<43015, 43018>>, <<43020, 43042>>, <<43056, 43061>>,
       <<43072, 43123>>, <<43138, 43187>>, <<43216, 43225>>, <<43250, 43255>>,
       <<43259, 43259>>, <<43261, 43262>>, <<43264, 43301>>, <<43312, 43334>>,
       <<43360, 43388>>, <<43396, 43442>>, <<43471, 43481>>, <<43488, 43492>>,
       <<43494, 43518>>, <<43520, 43560>>, <<43584, 43586>>, <<43588, 43595>>,
       <<43600, 43609>>, <<43616, 43638>>, <<43642, 43642>>, <<43646, 43695>>,
       <<43697, 43697>>, <<43701, 43702>>, <<43705, 43709>>, <<43712, 43712>>,
       <<43714, 43714>>, <<43739, 43741>>, <<43744, 43754>>, <<43762, 43764>>,
       <<43777, 43782>>, <<43785, 43790>>, <<43793, 43798>>, <<43808, 43814>>,
       <<43816, 43822>>, <<43824, 43866>>, <<43868, 43881>>, <<43888, 44002>>,
       <<44016, 44025>>, <<44032, 55203>>, <<55216, 55238>>, <<55243, 55291>>,
       <<63744, 64109>>, <<64112, 64217>>, <<64256, 64262>>, <<64275, 64279>>,
       <<64285, 64285>>, <<64287, 64296>>, <<64298, 64310>>, <<64312, 64316>>,
       <<64318, 64318>>, <<64320, 64321>>, <<64323, 64324>>, <<64326, 64433>>,
       <<64467, 64829>>, <<64848, 64911>>, <<64914, 64967>>, <<65008, 65019>>,
       <<65136, 65140>>, <<65142, 65276>>, <<65296, 65305>>, <<65313, 65338>>,
       <<65345, 65370>>, <<65382, 65470>>, <<65474, 65479>>, <<65482, 65487>>,
       <<65490, 65495>>, <<65498, 65500>>, <<65536, 65547>>, <<65549, 65574>>,
       <<65576, 65594>>, <<65596, 65597>>, <<65599, 65613>>, <<65616, 65629>>,
       <<65664, 65786>>, <<65799, 65843>>, <<65856, 65912>>, <<65930, 65931>>,
       <<66176, 66204>>, <<66208, 66256>>, <<66273, 66299>>, <<66304, 66339>>,
       <<66349, 66378>>, <<66384, 66421>>, <<66432, 66461>>, <<66464, 66499>>,
       <<66504, 66511>>, <<66513, 66517>>, <<66560, 66717>>, <<66720, 66729>>,
       <<66736, 66771>>, <<66776, 66811>>, <<66816, 66855>>, <<66864, 66915>>,
       <<66928, 66938>>, <<66940, 66954>>, <<66956, 66962>>, <<66964, 66965>>,
       <<66967, 66977>>, <<66979, 66993>>, <<66995, 67001>>, <<67003, 67004>>,
       <<67072, 67382>>, <<67392, 67413>>, <<67424, 67431>>, <<67456, 67461>>,
       <<67463, 67504>>, <<67506, 67514>>, <<67584, 67589>>, <<67592, 67592>>,
       <<67594, 67637>>, <<67639, 67640>>, <<67644, 67644>>, <<67647, 67669>>,
       <<67672, 67702>>, <<67705, 67742>>, <<67751, 67759>>, <<67808, 67826>>,
       <<67828, 67829>>, <<67835, 67867>>, <<67872, 67897>>, <<67968, 68023>>,
       <<68028, 68047>>, <<68050, 68096>>, <<68112, 68115>>, <<68117, 68119>>,
       <<68121, 68149>>, <<68160, 68168>>, <<68192, 68222>>, <<68224, 68255>>,
       <<68288, 68295>>, <<68297, 68324>>, <<68331, 68335>>, <<68352, 68405>>,
       <<68416, 68437>>, <<68440, 68466>>, <<68472, 68497>>, <<68521, 68527>>,
       <<68608, 68680>>, <<68736, 68786>>, <<68800, 68850>>, <<68858, 68899>>,
       <<68912, 68921>>, <<69216, 69246>>, <<69248, 69289>>, <<69296, 69297>>,
       <<69376, 69415>>, <<69424, 69445>>, <<69457, 69460>>, <<69488, 69505>>,
       <<69552, 69579>>, <<69600, 69622>>, <<69635, 69687>>, <<69714, 69743>>,
       <<69745, 69746>>, <<69749, 69749>>, <<69763, 69807>>, <<69840, 69864>>,
       <<69872, 69881>>, <<69891, 69926>>, <<69942, 69951>>, <<69956, 69956>>,
       <<69959, 69959>>, <<69968, 70002>>, <<70006, 70006>>, <<70019, 70066>>,
       <<70081, 70084>>, <<70096, 70106>>, <<70108, 70108>>, <<70113, 70132>>,
       <<70144, 70161>>, <<70163, 70187>>, <<70207, 70208>>, <<70272, 70278>>,
       <<70280, 70280>>, <<70282, 70285>>, <<70287, 70301>>, <<70303, 70312>>,
       <<70320, 70366>>, <<70384, 70393>>, <<70405, 70412>>, <<70415, 70416>>,
       <<70419, 70440>>, <<70442, 70448>>, <<70450, 70451>>, <<70453, 70457>>,
       <<70461, 70461>>, <<70480, 70480>>, <<70493, 70497>>, <<70656, 70708>>,
       <<70727, 70730>>, <<70736, 70745>>, <<70751, 70753>>, <<70784, 70831>>,
       <<70852, 70853>>, <<70855, 70855>>, <<70864, 70873>>, <<71040, 71086>>,
       <<71128, 71131>>, <<71168, 71215>>, <<71236, 71236>>, <<71248, 71257>>,
       <<71296, 71338>>, <<71352, 71352>>, <<71360, 71369>>, <<71424, 71450>>,
       <<71472, 71483>>, <<71488, 71494>>, <<71680, 71723>>, <<71840, 71922>>,
       <<71935, 71942>>, <<71945, 71945>>, <<71948, 71955>>, <<71957, 71958>>,
       <<71960, 71983>>, <<71999, 71999>>, <<72001, 72001>>, <<72016, 72025>>,
       <<72096, 72103>>, <<72106, 72144>>, <<72161, 72161>>, <<72163, 72163>>,
       <<72192, 72192>>, <<72203, 72242>>, <<72250, 72250>>, <<72272, 72272>>,
       <<72284, 72329>>, <<72349, 72349>>, <<72368, 72440>>, <<72704, 72712>>,
       <<72714, 72750>>, <<72768, 72768>>, <<72784, 72812>>, <<72818, 72847>>,
       <<72960, 72966>>, <<72968, 72969>>, <<72971, 73008>>, <<73030, 73030>>,
       <<73040, 73049>>, <<73056, 73061>>, <<73063, 73064>>, <<73066, 73097>>,
       <<73112, 73112>>, <<73120, 73129>>, <<73440, 73458>>, <<73474, 73474>>,
       <<73476, 73488>>, <<73490, 73523>>, <<73552, 73561>>, <<73648, 73648>>,
       <<73664, 73684>>, <<73728, 74649>>, <<74752, 74862>>, <<74880, 75075>>,
       <<77712, 77808>>, <<77824, 78895>>, <<78913, 78918>>, <<82944, 83526>>,
       <<92160, 92728>>, <<92736, 92766>>, <<92768, 92777>>, <<92784, 92862>>,
       <<92864, 92873>>, <<92880, 92909>>, <<92928, 92975>>, <<92992, 92995>>,
       <<93008, 93017>>, <<93019, 93025>>, <<93027, 93047>>, <<93053, 93071>>,
       <<93760, 93846>>, <<93952, 94026>>, <<94032, 94032>>, <<94099, 94111>>,
       <<94176, 94177>>, <<94179, 94179>>, <<94208, 100343>>, <<100352, 101589>>,
       <<101632, 101640>>, <<110576, 110579>>, <<110581, 110587>>, <<110589, 110590>>,
       <<110592, 110882>>, <<110898, 110898>>, <<110928, 110930>>, <<110933, 110933>>,
       <<110948, 110951>>, <<110960, 111355>>, <<113664, 113770>>, <<113776, 113788>>,
       <<113792, 113800>>, <<113808, 113817>>, <<119488, 119507>>, <<119520, 119539>>,
       <<119648, 119672>>, <<119808, 119892>>, <<119894, 119964>>, <<119966, 119967>>,
       <<119970, 119970>>, <<119973, 119974>>, <<119977, 119980>>, <<119982, 119993>>,
       <<119995, 119995>>, <<119997, 120003>>, <<120005, 120069>>, <<120071, 120074>>,
       <<120077, 120084>>, <<120086, 120092>>, <<120094, 120121>>, <<120123, 120126>>,
       <<120128, 120132>>, <<120134, 120134>>, <<120138, 120144>>, <<120146, 120485>>,
       <<120488, 120512>>, <<120514, 120538>>, <<120540, 120570>>, <<120572, 120596>>,
       <<120598, 120628>>, <<120630, 120654>>, <<120656, 120686>>, <<120688, 120712>>,
       <<120714, 120744>>, <<120746, 120770>>, <<120772, 120779>>, <<120782, 120831>>,
       <<122624, 122654>>, <<122661, 122666>>, <<122928, 122989>>, <<123136, 123180>>,
       <<123191, 123197>>, <<123200, 123209>>, <<123214, 123214>>, <<123536, 123565>>,
       <<123584, 123627>>, <<123632, 123641>>, <<124112, 124139>>, <<124144, 124153>>,
       <<124896, 124902>>, <<124904, 124907>>, <<124909, 124910>>, <<124912, 124926>>,
       <<124928, 125124>>, <<125127, 125135>>, <<125184, 125251>>, <<125259, 125259>>,
       <<125264, 125273>>, <<126065, 126123>>, <<126125, 126127>>, <<126129, 126132>>,
       <<126209, 126253>>, <<126255, 126269>>, <<126464, 126467>>, <<126469, 126495>>,
       <<126497, 126498>>, <<126500, 126500>>, <<126503, 126503>>, <<126505, 126514>>,
       <<126516, 126519>>, <<126521, 126521>>, <<126523, 126523>>, <<126530, 126530>>,
       <<126535, 126535>>, <<126537, 126537>>, <<126539, 126539>>, <<126541, 126543>>,
       <<126545, 126546>>, <<126548, 126548>>, <<126551, 126551>>, <<126553, 126553>>,
       <<126555, 126555>>, <<126557, 126557>>, <<126559, 126559>>, <<126561, 126562>>,
       <<126564, 126564>>, <<126567, 126570>>, <<126572, 126578>>, <<126580, 126583>>,
       <<126585, 126588>>, <<126590, 126590>>, <<126592, 126601>>, <<126603, 126619>>,
       <<126625, 126627>>, <<126629, 126633>>, <<126635, 126651>>, <<127232, 127244>>,
       <<130032, 130041>>, <<131072, 173791>>, <<173824, 177977>>, <<177984, 178205>>,
       <<178208, 183969>>, <<183984, 191456>>, <<191472, 192093>>, <<194560, 195101>>,
       <<196608, 201546>>, <<201552, 205743>> >>

\* The regular expression's \w: alphanumeric (str.isalnum) or underscore.
WordChars ==
    Letters \cup Latin1Letters \cup AsciiDigits \cup Latin1Numerics \cup {"_"}
    \cup CharsOf(WideWordRanges)

LabelData == <<"D", "a", "t", "a">>
LabelUpdate == <<"U", "p", "d", "a", "t", "e">>

\* The position after the literal lit at position i, or 0.
MatchLiteral(text, i, lit) ==
    IF i = 0 \/ i + Len(lit) - 1 > Len(text) THEN 0
    ELSE IF \A k \in 1..Len(lit) : text[i + k - 1] = lit[k]
    THEN i + Len(lit) ELSE 0

\* \s+ : the position after the longest run of whitespace at i, or 0 when
\* there is none.  No token that follows \s+ in the pattern can start with
\* whitespace, so the greedy run is the only way to match.
RECURSIVE SkipWhitespace(_, _)
SkipWhitespace(text, i) ==
    IF i <= Len(text) /\ text[i] \in Whitespace
    THEN SkipWhitespace(text, i + 1) ELSE i

\* Faulty variant: \s in place of \s+, exactly one whitespace character.
MatchSpaces_Single(text, i) ==
    IF i = 0 \/ i > Len(text) \/ text[i] \notin Whitespace THEN 0 ELSE i + 1

MatchSpaces(text, i) ==
    IF i = 0 \/ i > Len(text) \/ text[i] \notin Whitespace THEN 0
    ELSE SkipWhitespace(text, i)

\* Exactly n characters of the class cls at i: the position after, or 0.
MatchClass(text, i, cls, n) ==
    IF i = 0 \/ i + n - 1 > Len(text) THEN 0
    ELSE IF \A k \in 0..(n - 1) : text[i + k] \in cls THEN i + n ELSE 0

\* (\d{1,2}) is greedy: two digits when there are two.
MatchDay(text, i) ==
    IF MatchClass(text, i, Digits, 2) # 0 THEN MatchClass(text, i, Digits, 2)
    ELSE MatchClass(text, i, Digits, 1)

NoMatch == [found |-> FALSE, year |-> <<>>, month_abbr |-> <<>>, day |-> <<>>]

\* Data\s+Update\s+(\d{4})\s+(\w{3})\s+(\d{1,2}) anchored at position i.
MatchAt(text, i) ==
    LET p1 == MatchLiteral(text, i, LabelData)
        p2 == MatchSpaces(text, p1)
        p3 == MatchLiteral(text, p2, LabelUpdate)
        p4 == MatchSpaces(text, p3)
        p5 == MatchClass(text, p4, Digits, 4)
        p6 == MatchSpaces(text, p5)
        p7 == MatchClass(text, p6, WordChars, 3)
        p8 == MatchSpaces(text, p7)
        p9 == MatchDay(text, p8)
    IN IF p9 = 0 THEN NoMatch
       ELSE [found |-> TRUE,
             year |-> SubSeq(text, p4, p5 - 1),
             month_abbr |-> SubSeq(text, p6, p7 - 1),
             day |-> SubSeq(text, p8, p9 - 1)]

\* re.search: the match at the leftmost position that has one.
RECURSIVE ReSearchFrom(_, _)
ReSearchFrom(text, i) ==
    IF i > Len(text) THEN NoMatch
    ELSE IF MatchAt(text, i).found THEN MatchAt(text, i)
    ELSE ReSearchFrom(text, i + 1)

ReSearch(text) == ReSearchFrom(text, 1)

DigitSeq == <<"0", "1", "2", "3", "4", "5", "6", "7", "8", "9">>

\* The value of each decimal digit above U+00FF: its place in its run of ten.
WideDigitValues ==
    UNION { { <<Chr(n), n - WideDigitRanges[i][1]>> :
                n \in WideDigitRanges[i][1]..WideDigitRanges[i][2] } :
            i \in 1..Len(WideDigitRanges) }

\* int() of one decimal digit
DigitVal(c) ==
    IF c \in AsciiDigits
    THEN (CHOOSE i \in 1..Len(DigitSeq) : DigitSeq[i] = c) - 1
    ELSE (CHOOSE p \in WideDigitValues : p[1] = c)[2]

RECURSIVE ToInt(_)
ToInt(ds) ==
    IF ds = <<>> THEN 0
    ELSE ToInt(SubSeq(ds, 1, Len(ds) - 1)) * 10 + DigitVal(ds[Len(ds)])

\* %b: the English month abbreviations, matched without regard to case.
MonthAbbrs ==
    << <<"j", "a", "n">>, <<"f", "e", "b">>, <<"m", "a", "r">>,
       <<"a", "p", "r">>, <<"m", "a", "y">>, <<"j", "u", "n">>,
       <<"j", "u", "l">>, <<"a", "u", "g">>, <<"s", "e", "p">>,
       <<"o", "c", "t">>, <<"n", "o", "v">>, <<"d", "e", "c">> >>

MonthNumber(abbr) ==
    LET low == Lower(abbr)
    IN IF \E m \in 1..Len(MonthAbbrs) : MonthAbbrs[m] = low
       THEN CHOOSE m \in 1..Len(MonthAbbrs) : MonthAbbrs[m] = low
       ELSE 0

\* %d: 3[0-1] | [1-2]\d | 0[1-9] | [1-9], the whole of the day: the digits
\* the pattern spells out are ASCII, \d is a decimal digit of any script.
DayNumber(ds) ==
    IF Len(ds) = 1
    THEN (IF ds[1] \in AsciiDigits \ {"0"} THEN DigitVal(ds[1]) ELSE 0)
    ELSE IF Len(ds) # 2 THEN 0
    ELSE IF ds[1] = "3" /\ ds[2] \in {"0", "1"} THEN 30 + DigitVal(ds[2])
    ELSE IF ds[1] \in {"1", "2"} /\ ds[2] \in Digits
         THEN DigitVal(ds[1]) * 10 + DigitVal(ds[2])
    ELSE IF ds[1] = "0" /\ ds[2] \in AsciiDigits \ {"0"} THEN DigitVal(ds[2])
    ELSE 0

IsLeap(y) == y % 4 = 0 /\ (y % 100 # 0 \/ y % 400 = 0)

DaysInMonth(y, m) ==
    IF m = 2 THEN (IF IsLeap(y) THEN 29 ELSE 28)
    ELSE IF m \in {4, 6, 9, 11} THEN 30 ELSE 31

NoDate(st) ==
    [status |-> st, year |-> 0, month |-> 0, day |-> 0, hour |-> 0,
     minute |-> 0, second |-> 0, tzinfo |-> "none"]

\* datetime.strptime(f"{year} {month_abbr} {day}", "%Y %b %d")
\*     .replace(tzinfo=timezone.utc); every rejection is a ValueError.
Strptime(year, month_abbr, day) ==
    LET y == ToInt(year)
        m == MonthNumber(month_abbr)
        d == DayNumber(day)
    IN IF m = 0 \/ d = 0 \/ y < 1 THEN NoDate("ValueError")
       ELSE IF d > DaysInMonth(y, m) THEN NoDate("ValueError")
       ELSE [status |-> "ok", year |-> y, month |-> m, day |-> d, hour |-> 0,
             minute |-> 0, second |-> 0, tzinfo |-> "UTC"]

\* The function on the outcome of the one GET of GCAT_HOME_URL: an
\* exception of requests.get itself propagates, raise_for_status() raises
\* HTTPError, no match raises RuntimeError.
FetchDataUpdateDate(resp) ==
    IF resp.raises # "none" THEN NoDate(resp.raises)
    ELSE IF ~resp.ok THEN NoDate("HTTPError")
    ELSE LET match == ReSearch(resp.text) IN
         IF ~match.found THEN NoDate("RuntimeError")
         ELSE Strptime(match.year, match.month_abbr, match.day)

-----------------------------------------------------------------------------
(* download_tsv: the body of the GET of BASE_URL + file_path, the          *)
(* exception of requests.get, or the HTTPError of raise_for_status().      *)

NoBytes(st) == [status |-> st, body |-> <<>>]

DownloadTsv(resp) ==
    IF resp.raises # "none" THEN NoBytes(resp.raises)
    ELSE IF ~resp.ok THEN NoBytes("HTTPError")
    ELSE [status |-> "ok", body |-> resp.text]

-----------------------------------------------------------------------------
(* The inputs: the two HTTP responses and the standard output channel.      *)

\* Bounds of the model.
MaxLines == 3
MaxWs == 2

\* Lines a document is made of: headers, comments, blank lines, rows with
\* numbers, dashes and text, short and long rows, padded and quoted fields,
\* white space other than the space and the tab, and a piece with a line
\* boundary other than the newline inside.
LineSet ==
    { <<"#", "a", TAB, "b">>,
      <<NBSP, "#", "x">>,
      <<"#">>,
      <<>>,
      <<US, TAB>>,
      <<"1", TAB, "1", "2">>,
      <<"2", TAB, "-">>,
      <<"U+11F53", TAB, "U+0667", ".", "5">>,
      <<"-", TAB, "e", "a", "s", "t">>,
      <<"4">>,
      <<"8", "U+2028", "9">>,
      <<"5", TAB, "-", TAB, "-">>,
      <<NBSP, "6", " ", TAB, FS, "-", "U+3000">>,
      <<QUOTE, "q", TAB, "r", QUOTE, TAB, "w">>,
      <<"x", VT, "y", TAB>>,
      <<QUOTE, QUOTE>>,
      <<"1", "e", "3", TAB, "n", "a", "n">> }

\* The end-to-end document: a marked header, a dash in a numeric column and
\* a comment between the rows.
EndToEndLines ==
    << <<"#", "i", "d", TAB, "d", "i", "s", "t", "a", "n", "c", "e", TAB,
         "n", "a", "m", "e">>,
       <<"1", TAB, "1", "2", TAB, "a", "l", "p", "h", "a">>,
       <<"2", TAB, "-", TAB, "b", "e", "t", "a">>,
       <<"#", " ", "s", "k", "i", "p", " ", "m", "e">>,
       <<"3", TAB, "7", ".", "5", TAB, "g", "a", "m", "m", "a">> >>

EndToEndDoc == Join(EndToEndLines, <<NL>>) \o <<NL>>

\* A document with a dash in a column of text.
DirectionLines ==
    << <<"k", TAB, "d", "i", "r">>,
       <<"1", TAB, "e", "a", "s", "t">>,
       <<"2", TAB, "-">>,
       <<"3", TAB, "w", "e", "s", "t">> >>

DirectionDoc == Join(DirectionLines, <<NL>>)

\* The documents of at most MaxLines lines, and the end-to-end document.
DocSet ==
    { Join(ls, <<NL>>) :
        ls \in UNION { [1..n -> LineSet] : n \in 0..MaxLines } }
    \cup {EndToEndDoc, DirectionDoc}

\* A few documents, one per way the pipeline can go.
SmallDocs ==
    { <<>>,
      <<"#">>,
      <<"a", TAB, "b">>,
      <<"a", TAB, "b", NL, "1", TAB, "-", NL, "2", TAB, "7", ".", "5">>,
      <<"a", TAB, "b", NL, "4">>,
      <<"h", NL, "U+11F52", NL, "-">>,
      EndToEndDoc }

\* The outcomes of requests.get(url): a response whose status
\* raise_for_status() accepts, with its text; a response whose status it
\* rejects; no response, requests.get raising (no connection).
Response(text) == [raises |-> "none", ok |-> TRUE, text |-> text]
HttpError == [raises |-> "none", ok |-> FALSE, text |-> <<>>]
ConnectionFailed == [raises |-> "ConnectionError", ok |-> FALSE, text |-> <<>>]

\* A run of n whitespace characters.
WsRun(n) ==
    [i \in 1..n |->
        IF i % 3 = 0 THEN NBSP ELSE IF i % 3 = 2 THEN "U+2003" ELSE " "]

\* The home page is built of parts: text before, the two words of the label,
\* the runs of whitespace, the three tokens of the date (each with the number
\* it stands for, 0 when it stands for none) and text after.
PreSet == { <<>>, <<"x">> }
PostSet == { <<>>, <<"<">>, <<"5">> }
LabelSet ==
    { [data |-> LabelData, update |-> LabelUpdate],
      [data |-> <<"d", "a", "t", "a">>, update |-> <<"u", "p", "d", "a", "t", "e">>],
      [data |-> <<"D", "A", "T", "A">>, update |-> <<"U", "P", "D", "A", "T", "E">>],
      [data |-> LabelData, update |-> <<"u", "p", "d", "a", "t", "e">>] }
YearSet ==
    { [text |-> <<"2", "0", "2", "6">>, value |-> 2026],
      [text |-> <<"2", "0", "2", "4">>, value |-> 2024],
      [text |-> <<"U+11F52", "U+0660", "U+0662", "U+0666">>, value |-> 2026],
      [text |-> <<"2", "0", "2">>, value |-> 0] }
MonthSet ==
    { [text |-> <<"J", "a", "n">>, value |-> 1],
      [text |-> <<"j", "a", "n">>, value |-> 1],
      [text |-> <<"F", "e", "b">>, value |-> 2],
      [text |-> <<"F", "o", "o">>, value |-> 0],
      [text |-> <<"J", "ä", "U+2EBF0">>, value |-> 0],
      [text |-> <<"J", "a">>, value |-> 0] }
DaySet ==
    { [text |-> <<"2">>, value |-> 2],
      [text |-> <<"0", "2">>, value |-> 2],
      [text |-> <<"2", "U+1E4F9">>, value |-> 29],
      [text |-> <<"3", "1">>, value |-> 31],
      [text |-> <<"U+0662">>, value |-> 2],
      [text |-> <<"0">>, value |-> 0] }

PartsSet ==
    [pre : PreSet, label : LabelSet, gap_label : 0..MaxWs, gap : 0..MaxWs,
     year : YearSet, month : MonthSet, day : DaySet, post : PostSet]

BuildPage(p) ==
    p.pre \o p.label.data \o WsRun(p.gap_label) \o p.label.update
    \o WsRun(p.gap) \o p.year.text \o WsRun(p.gap) \o p.month.text
    \o WsRun(p.gap) \o p.day.text \o p.post

PlainParts ==
    [pre |-> <<>>, label |-> [data |-> LabelData, update |-> LabelUpdate],
     gap_label |-> 1, gap |-> 1,
     year |-> [text |-> <<"2", "0", "2", "6">>, value |-> 2026],
     month |-> [text |-> <<"J", "a", "n">>, value |-> 1],
     day |-> [text |-> <<"2">>, value |-> 2], post |-> <<>>]

\* The outcomes of the GET of the home page: the page built of the parts,
\* or (once each) a status that raise_for_status() rejects and no response.
HomePages(p) ==
    {Response(BuildPage(p))}
    \cup (IF p = PlainParts THEN {HttpError, ConnectionFailed} ELSE {})

\* A few home pages: two dates, a year in Kawi and Arabic-Indic digits, a
\* label in lower case, a month that is none.
SmallParts ==
    { PlainParts,
      [PlainParts EXCEPT !.year = [text |-> <<"2", "0", "2", "4">>, value |-> 2024],
                         !.month = [text |-> <<"F", "e", "b">>, value |-> 2],
                         !.day = [text |-> <<"2", "9">>, value |-> 29]],
      [PlainParts EXCEPT !.year = [text |-> <<"U+11F52", "U+0660", "U+0662",
                                              "U+0666">>, value |-> 2026]],
      [PlainParts EXCEPT !.label = [data |-> <<"d", "a", "t", "a">>,
                                    update |-> <<"u", "p", "d", "a", "t", "e">>]],
      [PlainParts EXCEPT !.month = [text |-> <<"F", "o", "o">>, value |-> 0]] }

-----------------------------------------------------------------------------
(* The pipeline: ingest_gcat_file and the entry point's emit.               *)

VARIABLES
    page_parts,        \* the parts the home page's text is built of
    home_page,         \* the response to the GET of GCAT_HOME_URL
    tsv_file,          \* the response to the GET of BASE_URL + file_path
    stdout_ok,         \* whether standard output accepts the writes
    annotate_ok,       \* whether pyarrow has the memory for the new column
    pc,                \* the position in ingest_gcat_file and the entry point
    data_update_date,  \* the result of fetch_data_update_date
    raw_bytes,         \* the result of download_tsv
    cleaned,           \* the result of clean_tsv_content
    table,             \* the result of load_arrow_table
    annotated,         \* the result of add_data_update_column
    stdout,            \* what emit has written
    error,             \* the exception that ended the run, or "none"
    calls,             \* the functions called, in order
    http_gets          \* the URLs requested, in order

vars ==
    <<page_parts, home_page, tsv_file, stdout_ok, annotate_ok, pc,
      data_update_date, raw_bytes, cleaned, table, annotated, stdout, error,
      calls, http_gets>>

inputs == <<page_parts, home_page, tsv_file, stdout_ok, annotate_ok>>

CleanUnset ==
    [status |-> "unset", parsed_rows |-> <<>>, numeric_columns |-> {},
     all_rows |-> <<>>, bytes |-> <<>>]

\* Nothing has run yet.
Fresh ==
    /\ pc = "fetch"
    /\ data_update_date = NoDate("unset")
    /\ raw_bytes = NoBytes("unset")
    /\ cleaned = CleanUnset
    /\ table = NoTable("unset")
    /\ annotated = NoTable("unset")
    /\ stdout = <<>>
    /\ error = "none"
    /\ calls = <<>>
    /\ http_gets = <<>>

\* Faulty variant: the failure of a step is swallowed and the run goes on.
AfterStep_Swallow(status, next_pc) == next_pc

\* An exception propagates to the top: a step that fails ends the run.
AfterStep(status, next_pc) == IF status = "ok" THEN next_pc ELSE "aborted"
Raised(status) == IF status = "ok" THEN "none" ELSE status

\* line 172: data_update_date = fetch_data_update_date()
FetchDate ==
    /\ pc = "fetch"
    /\ data_update_date.status = "unset"
    /\ data_update_date' = FetchDataUpdateDate(home_page)
    /\ pc' = AfterStep(data_update_date'.status, "fetch")
    /\ error' = Raised(data_update_date'.status)
    /\ calls' = Append(calls, "fetch_data_update_date")
    /\ http_gets' = Append(http_gets, "GCAT_HOME_URL")
    /\ UNCHANGED <<inputs, raw_bytes, cleaned, table, annotated, stdout>>

\* line 173: raw_bytes = download_tsv(file_path), once line 172 has
\* returned the date.
Download ==
    /\ pc = "fetch"
    /\ raw_bytes.status = "unset"
    /\ data_update_date.status = "ok"
    /\ raw_bytes' = DownloadTsv(tsv_file)
    /\ pc' = AfterStep(raw_bytes'.status, "fetch")
    /\ error' = Raised(raw_bytes'.status)
    /\ calls' = Append(calls, "download_tsv")
    /\ http_gets' = Append(http_gets, "BASE_URL + file_path")
    /\ UNCHANGED <<inputs, data_update_date, cleaned, table, annotated, stdout>>

\* line 174: cleaned_bytes = clean_tsv_content(raw_bytes)
Clean ==
    /\ pc = "fetch"
    /\ data_update_date.status = "ok"
    /\ raw_bytes.status = "ok"
    /\ cleaned' = CleanTsvContent(raw_bytes.body)
    /\ pc' = AfterStep(cleaned'.status, "cleaned")
    /\ error' = Raised(cleaned'.status)
    /\ calls' = Append(calls, "clean_tsv_content")
    /\ UNCHANGED <<inputs, data_update_date, raw_bytes, table, annotated,
                   stdout, http_gets>>

\* line 175: table = load_arrow_table(cleaned_bytes)
Load ==
    /\ pc = "cleaned"
    /\ table' = LoadArrowTable(cleaned.bytes)
    /\ pc' = AfterStep(table'.status, "loaded")
    /\ error' = Raised(table'.status)
    /\ calls' = Append(calls, "load_arrow_table")
    /\ UNCHANGED <<inputs, data_update_date, raw_bytes, cleaned, annotated,
                   stdout, http_gets>>

\* lines 176-177: table = add_data_update_column(table, data_update_date),
\* and the table is returned to the entry point; pyarrow raises when it
\* cannot allocate the column.
Annotate ==
    /\ pc = "loaded"
    /\ annotated' =
          (IF annotate_ok THEN AddDataUpdateColumn(table, data_update_date)
           ELSE NoTable("ArrowMemoryError"))
    /\ pc' = AfterStep(annotated'.status, "returned")
    /\ error' = Raised(annotated'.status)
    /\ calls' = Append(calls, "add_data_update_column")
    /\ UNCHANGED <<inputs, data_update_date, raw_bytes, cleaned, table,
                   stdout, http_gets>>

\* emit(table): the schema, then the table, then the end of the stream; a
\* write that fails leaves what was written before it and raises OSError.
SchemaMessage(t) == [kind |-> "schema", names |-> t.names, columns |-> <<>>]
BatchMessage(t) == [kind |-> "batch", names |-> t.names, columns |-> t.columns]
EndOfStream == [kind |-> "eos", names |-> <<>>, columns |-> <<>>]

EmitStream(t, ok) ==
    IF ok THEN <<SchemaMessage(t), BatchMessage(t), EndOfStream>>
    ELSE <<SchemaMessage(t)>>

Emit ==
    /\ pc = "returned"
    /\ stdout' = EmitStream(annotated, stdout_ok)
    /\ pc' = AfterStep(IF stdout_ok THEN "ok" ELSE "OSError", "done")
    /\ error' = Raised(IF stdout_ok THEN "ok" ELSE "OSError")
    /\ calls' = Append(calls, "emit")
    /\ UNCHANGED <<inputs, data_update_date, raw_bytes, cleaned, table,
                   annotated, http_gets>>

Next == FetchDate \/ Download \/ Clean \/ Load \/ Annotate \/ Emit

InitInputs ==
    /\ page_parts \in SmallParts
    /\ home_page \in HomePages(page_parts)
    /\ tsv_file \in {HttpError, ConnectionFailed}
                    \cup {Response(d) : d \in SmallDocs}
    /\ stdout_ok \in BOOLEAN
    /\ annotate_ok \in BOOLEAN

\* The program: ingest_gcat_file("tsv/tables/lv.tsv"), then emit.
Init == InitInputs /\ Fresh
Spec == Init /\ [][Next]_vars

\* fetch_data_update_date alone, on every home page built of the parts.
InitDate ==
    /\ page_parts \in PartsSet
    /\ home_page \in HomePages(page_parts)
    /\ tsv_file = HttpError
    /\ stdout_ok = TRUE
    /\ annotate_ok = TRUE
    /\ Fresh
SpecDate == InitDate /\ [][FetchDate]_vars

\* clean_tsv_content and load_arrow_table alone, on every document of DocSet:
\* both fetches have returned.
InitSan ==
    /\ page_parts = PlainParts
    /\ home_page = Response(BuildPage(page_parts))
    /\ tsv_file \in {Response(d) : d \in DocSet}
    /\ stdout_ok = TRUE
    /\ annotate_ok = TRUE
    /\ pc = "fetch"
    /\ data_update_date = FetchDataUpdateDate(home_page)
    /\ raw_bytes = DownloadTsv(tsv_file)
    /\ cleaned = CleanUnset
    /\ table = NoTable("unset")
    /\ annotated = NoTable("unset")
    /\ stdout = <<>>
    /\ error = "none"
    /\ calls = <<"fetch_data_update_date", "download_tsv">>
    /\ http_gets = <<"GCAT_HOME_URL", "BASE_URL + file_path">>
SpecSan == InitSan /\ [][Clean \/ Load]_vars

-----------------------------------------------------------------------------
(* The claims about clean_tsv_content and load_arrow_table, checked under   *)
(* SpecSan.                                                                 *)

\* The lines of the downloaded document.
DocLines == SplitLines(raw_bytes.body)

\* The number of data rows of the sanitized document.
DataRowCount ==
    IF cleaned.all_rows = <<>> THEN 0 ELSE Len(cleaned.all_rows) - 1

\* Column c of the data rows of the sanitized document.
OutColumn(c) == [r \in 1..DataRowCount |-> cleaned.all_rows[r + 1][c]]

\* C1: in every data row and at every position, the output value is empty
\* when the trimmed input value is "-" and the column was inferred numeric,
\* and is the trimmed input value in every other case; the numeric column
\* 12, -, 7.5 becomes 12, (empty), 7.5 and the column east, -, west stays.
C1_SentinelNormalization ==
    cleaned.status = "ok" =>
      /\ Len(cleaned.all_rows) = Len(cleaned.parsed_rows)
      /\ \A r \in 2..Len(cleaned.all_rows) :
           /\ Len(cleaned.all_rows[r]) = Len(cleaned.parsed_rows[r])
           /\ \A c \in 1..Len(cleaned.all_rows[r]) :
                /\ Strip(cleaned.parsed_rows[r][c]) = cleaned.parsed_rows[r][c]
                /\ cleaned.all_rows[r][c] =
                     IF cleaned.parsed_rows[r][c] = DASH
                        /\ c \in cleaned.numeric_columns
                     THEN EMPTY
                     ELSE cleaned.parsed_rows[r][c]
      /\ raw_bytes.body = EndToEndDoc =>
           OutColumn(2) = << <<"1", "2">>, <<>>, <<"7", ".", "5">> >>
      /\ raw_bytes.body = DirectionDoc =>
           OutColumn(2) = << <<"e", "a", "s", "t">>, <<"-">>,
                             <<"w", "e", "s", "t">> >>

\* C1's case: one dash replaced in a numeric column and one dash kept in a
\* column that is not numeric, in the same document.
C1_Witness ==
    /\ cleaned.status = "ok"
    /\ \E r \in 2..Len(cleaned.all_rows) :
         \E c \in 1..Len(cleaned.all_rows[r]) :
            cleaned.parsed_rows[r][c] = DASH /\ cleaned.all_rows[r][c] = EMPTY
    /\ \E r \in 2..Len(cleaned.all_rows) :
         \E c \in 1..Len(cleaned.all_rows[r]) :
            cleaned.parsed_rows[r][c] = DASH /\ cleaned.all_rows[r][c] = DASH

\* The header the first line stands for: its leading "#" characters stripped,
\* then the whitespace around it, then split into trimmed fields.
FirstLineFields ==
    StripFields(CsvReaderFrom(Strip(LStripHash(DocLines[1])), 1,
                              "START_RECORD", <<>>, <<>>))

\* The later lines that are no comments.
NonCommentLater ==
    {i \in 2..Len(DocLines) : ~StartsWithHash(Strip(DocLines[i]))}

\* C2: a line whose trimmed form starts with "#" is dropped unless it is the
\* first line; the first line of every non-empty document is never dropped
\* and is the header, parsed from its content without the leading "#"
\* characters and the surrounding whitespace.
C2_FirstLineIsHeader ==
    (cleaned.status # "unset" /\ DocLines # <<>>) =>
      /\ cleaned.status = "ok"
      /\ cleaned.all_rows # <<>>
      /\ cleaned.all_rows[1] = FirstLineFields
      /\ DataRowCount <= Cardinality(NonCommentLater)

\* The lines after the first that are kept: the trimmed form is not empty
\* and does not start with "#".
KeptLines ==
    IF DocLines = <<>> THEN <<>>
    ELSE SelectSeq(Tail(DocLines),
                   LAMBDA l : Strip(l) # <<>> /\ ~StartsWithHash(Strip(l)))

\* C3: every column of the table load_arrow_table builds of the sanitized
\* document has as many values as the document has data rows (the lines
\* after the first that the sanitizer keeps), so all columns have the same
\* length.
C3_Rectangular ==
    table.status = "ok" =>
      /\ \A c \in 1..Len(table.columns) :
           Len(table.columns[c]) = Len(KeptLines)
      /\ \A c, d \in 1..Len(table.columns) :
           Len(table.columns[c]) = Len(table.columns[d])

\* C3's case: a table of several columns and rows has been built of a
\* document that also holds a line after the first that is no data row.
C3_Witness ==
    /\ table.status = "ok"
    /\ Len(table.columns) >= 2
    /\ Len(KeptLines) >= 2
    /\ Len(DocLines) > Len(KeptLines) + 1
    /\ Len(table.columns[2]) = Len(KeptLines)

\* The values of column c that are neither "-" nor empty; rows too short to
\* have the column give none.
CollectedValues(c) ==
    { cleaned.parsed_rows[r][c] :
        r \in {q \in 2..Len(cleaned.parsed_rows) :
                 c <= Len(cleaned.parsed_rows[q])} }
    \ {DASH, EMPTY}

\* The field values of the documents of DocSet that float() accepts: 3 in
\* Kawi digits, 7.5 with an Arabic-Indic 7, and the ASCII ones.
FloatAccepts ==
    { <<"1">>, <<"2">>, <<"3">>, <<"4">>, <<"5">>, <<"6">>, <<"8">>, <<"9">>,
      <<"1", "2">>, <<"7", ".", "5">>, <<"1", "e", "3">>, <<"n", "a", "n">>,
      <<"U+11F53">>, <<"U+0667", ".", "5">> }

\* C9: a position of the header is marked numeric exactly when the set of
\* its data-row values that are neither "-" nor empty is not empty and every
\* member of it parses as a float; rows too short for the position add
\* nothing to the set.
C9_NumericInference ==
    (cleaned.status = "ok" /\ cleaned.parsed_rows # <<>>) =>
      /\ cleaned.numeric_columns \subseteq 1..Len(cleaned.parsed_rows[1])
      /\ \A c \in 1..Len(cleaned.parsed_rows[1]) :
           (c \in cleaned.numeric_columns) <=>
             (/\ CollectedValues(c) # {}
              /\ CollectedValues(c) \subseteq FloatAccepts)

\* C9's case: one column numeric, one column of dashes only that is not, and
\* a row too short to reach the second column.
C9_Witness ==
    /\ cleaned.status = "ok"
    /\ Len(cleaned.parsed_rows) > 2
    /\ Len(cleaned.parsed_rows[1]) >= 2
    /\ 1 \in cleaned.numeric_columns
    /\ 2 \notin cleaned.numeric_columns
    /\ CollectedValues(2) = {}
    /\ \E r \in 2..Len(cleaned.parsed_rows) : Len(cleaned.parsed_rows[r]) = 1
    /\ \E r \in 2..Len(cleaned.parsed_rows) :
         Len(cleaned.parsed_rows[r]) >= 2 /\ cleaned.parsed_rows[r][2] = DASH

\* C10 as stated: the data rows are the lines after the first whose trimmed
\* form does not start with "#", one row per such line, so their number is
\* the number of those lines.
C10_OneRowPerNonCommentLine ==
    cleaned.status = "ok" => DataRowCount = Cardinality(NonCommentLater)

\* C10, amended: the data rows are, in source order, the lines after the
\* first whose trimmed form is not empty and does not start with "#"; each
\* such line gives one row, parsed from its trimmed form, and no other line
\* gives a row.
C10_OneRowPerKeptLine ==
    cleaned.status = "ok" =>
      /\ DataRowCount = Len(KeptLines)
      /\ \A k \in 1..Len(KeptLines) :
           cleaned.parsed_rows[k + 1] =
             StripFields(CsvReaderFrom(Strip(KeptLines[k]), 1,
                                       "START_RECORD", <<>>, <<>>))

\* C10's case: a later line that is blank once trimmed gave no row, a
\* comment gave none either, and a data line gave one.
C10_Witness ==
    /\ cleaned.status = "ok"
    /\ DataRowCount >= 1
    /\ \E i \in 2..Len(DocLines) : Strip(DocLines[i]) = <<>>
    /\ DataRowCount < Cardinality(NonCommentLater)

-----------------------------------------------------------------------------
(* The claims about fetch_data_update_date, checked under SpecDate.         *)

DateDone == data_update_date.status # "unset"

LabelExact ==
    page_parts.label.data = LabelData /\ page_parts.label.update = LabelUpdate

\* The page holds the pattern's tokens, whitespace between all of them.
TokensSpaced ==
    /\ page_parts.gap_label >= 1
    /\ page_parts.gap >= 1
    /\ Len(page_parts.year.text) = 4
    /\ Len(page_parts.month.text) = 3

\* The digits of the day the page shows: a single digit followed by a digit
\* reads as the two-digit day.
ShownDayText ==
    IF Len(page_parts.day.text) = 1 /\ page_parts.post = <<"5">>
    THEN page_parts.day.text \o <<"5">>
    ELSE page_parts.day.text

\* The day is written as the %d of strptime reads it: in ASCII digits, the
\* second digit of a day from 10 to 29 in the digits of any script.
DayReadable ==
    /\ ShownDayText[1] \in {"0", "1", "2", "3", "4", "5", "6", "7", "8", "9"}
    /\ Len(ShownDayText) = 2 =>
         \/ ShownDayText[2] \in {"0", "1", "2", "3", "4", "5", "6", "7", "8", "9"}
         \/ ShownDayText[1] \in {"1", "2"}

ShownDay ==
    IF Len(page_parts.day.text) = 1 /\ page_parts.post = <<"5">>
    THEN page_parts.day.value * 10 + 5
    ELSE page_parts.day.value

\* The days of the months of MonthSet in the years of YearSet.
ShownMonthDays ==
    IF page_parts.month.value = 2
    THEN (IF page_parts.year.value = 2024 THEN 29 ELSE 28)
    ELSE 31

ShownDateValid ==
    /\ page_parts.month.value # 0
    /\ DayReadable
    /\ ShownDay >= 1
    /\ ShownDay <= ShownMonthDays

ShownDate ==
    [status |-> "ok", year |-> page_parts.year.value,
     month |-> page_parts.month.value, day |-> ShownDay, hour |-> 0,
     minute |-> 0, second |-> 0, tzinfo |-> "UTC"]

\* C5 as stated: the date is found whatever the letter case of the label and
\* whatever the amount of whitespace between the tokens, and is returned at
\* UTC midnight.
C5_CaseAndSpacingTolerant ==
    (DateDone /\ home_page.ok /\ TokensSpaced /\ ShownDateValid) =>
      data_update_date = ShownDate

\* C5, amended: the label is matched in the letter case "Data Update" only;
\* with that label, any non-empty whitespace between the tokens and a valid
\* date whose day is written as %d reads it, the date is returned at UTC
\* midnight; with the label in another
\* letter case, or with no whitespace between two tokens, nothing matches
\* and RuntimeError is raised.
C5_SpacingTolerantCaseSensitive ==
    (DateDone /\ home_page.ok) =>
      /\ (LabelExact /\ TokensSpaced /\ ShownDateValid) =>
           data_update_date = ShownDate
      /\ ~LabelExact => data_update_date.status = "RuntimeError"
      /\ (page_parts.gap_label = 0 \/ page_parts.gap = 0) =>
           data_update_date.status = "RuntimeError"

\* C5's case: "Data Update 2026 Jan 2" with two whitespace characters
\* between the tokens resolves to 2026-01-02T00:00:00Z.
C5_Witness ==
    /\ home_page.ok
    /\ LabelExact
    /\ page_parts.gap_label = 2
    /\ page_parts.gap = 2
    /\ data_update_date =
         [status |-> "ok", year |-> 2026, month |-> 1, day |-> 2, hour |-> 0,
          minute |-> 0, second |-> 0, tzinfo |-> "UTC"]

\* C6: a page without the pattern and a page whose month token is no English
\* abbreviation fail with one and the same error kind (that of the missing
\* pattern, RuntimeError), a failed GET fails with another kind, and there
\* is one GET and no retry.
C6_OneErrorKind ==
    DateDone =>
      /\ Len(http_gets) = 1
      /\ ~home_page.ok =>
           data_update_date.status \in {"HTTPError", "ConnectionError"}
      /\ (home_page.ok /\ ~(LabelExact /\ TokensSpaced)) =>
           data_update_date.status = "RuntimeError"
      /\ (home_page.ok /\ LabelExact /\ TokensSpaced
            /\ page_parts.month.value = 0) =>
           data_update_date.status = "RuntimeError"

-----------------------------------------------------------------------------
(* The claims about the pipeline, checked under Spec.                       *)

StepNames ==
    <<"fetch_data_update_date", "download_tsv", "clean_tsv_content",
      "load_arrow_table", "add_data_update_column">>

StepStatuses ==
    <<data_update_date.status, raw_bytes.status, cleaned.status, table.status,
      annotated.status>>

\* C4: when one of the five steps of ingest_gcat_file fails, the run is
\* aborted with that failure, no later step runs, emit is never called and
\* nothing is written to standard output; what is written was preceded by
\* the success of all five.
C4_AbortsOnFailure ==
    /\ \A i \in 1..Len(StepNames) :
         StepStatuses[i] \notin {"unset", "ok"} =>
           /\ pc = "aborted"
           /\ error = StepStatuses[i]
           /\ stdout = <<>>
           /\ calls[Len(calls)] = StepNames[i]
           /\ \A j \in (i + 1)..Len(StepNames) : StepStatuses[j] = "unset"
           /\ \A k \in 1..Len(calls) : calls[k] # "emit"
    /\ stdout # <<>> =>
         \A i \in 1..Len(StepNames) : StepStatuses[i] = "ok"

\* C4's case: add_data_update_column failed after four steps that
\* succeeded, and nothing was written.
C4_Witness ==
    /\ pc = "aborted"
    /\ annotated.status = "ArrowMemoryError"
    /\ calls = StepNames
    /\ stdout = <<>>

\* The date the home page shows, at UTC midnight.
PageDate ==
    [status |-> "ok", year |-> page_parts.year.value,
     month |-> page_parts.month.value, day |-> page_parts.day.value,
     hour |-> 0, minute |-> 0, second |-> 0, tzinfo |-> "UTC"]

\* C7: the table add_data_update_column returns has the input's columns, in
\* order and with their values, then one more and last column,
\* data_update_date, holding the date of the page once per data row of the
\* document; the row count is unchanged, also when it is zero, and the input
\* table is still the table load_arrow_table built.
C7_AppendsDateColumn ==
    annotated.status = "ok" =>
      LET last == Len(annotated.columns) IN
      /\ last = Len(table.columns) + 1
      /\ SubSeq(annotated.names, 1, last - 1) = table.names
      /\ annotated.names[last] = DataUpdateDateName
      /\ SubSeq(annotated.columns, 1, last - 1) = table.columns
      /\ \A c \in 1..last : Len(annotated.columns[c]) = Len(KeptLines)
      /\ \A r \in 1..Len(KeptLines) : annotated.columns[last][r] = PageDate
      /\ table = LoadArrowTable(cleaned.bytes)

\* C7's case: a table of several rows and columns has been annotated.
C7_Witness ==
    /\ annotated.status = "ok"
    /\ Len(KeptLines) >= 2
    /\ Len(table.columns) >= 2
    /\ Len(annotated.columns) = Len(table.columns) + 1
    /\ annotated.columns[Len(annotated.columns)][2] = PageDate

====
